---- MODULE Spec2Model ----
(***************************************************************************)
(* A model of gapy's client (src/gapy/client.py): the parameter            *)
(* normaliser (_to_list, _prefixer, _to_ga_param, _to_mcf_param), the      *)
(* query sub-client (get_ga, get_mcf, _get, get_raw_response), the         *)
(* management sub-client (_list, _item and the seven operations) and the   *)
(* two construction paths (from_private_key, from_secrets_file).           *)
(*                                                                         *)
(* A Python string is a sequence of one-character strings, so that         *)
(* startswith, slicing, concatenation and ','.join are computed and not    *)
(* assumed.  A Python value that may be None, a string, a list of strings  *)
(* or an int is a record [t, s, l, n] with t its type tag.                 *)
(***************************************************************************)
EXTENDS Naturals, Sequences, FiniteSets

VARIABLES
    pf,     \* the _prefixer harness: input, namespace, results of 1 and 2 applications
    tl,     \* the _to_list harness: input value and result
    qc,     \* the QueryClient: its _ga_hook, and the record of the last query
    qlog,   \* the hook / execute events of all queries so far, in order
    mc,     \* the ManagementClient: invocation and listing counters, last operation
    ctor    \* the last construction attempt: arguments, external calls made, outcome

vars == <<pf, tl, qc, qlog, mc, ctor>>

---------------------------------------------------------------------------
(* Bounds *)

MaxStrLen == 5      \* longest input string of the _prefixer harness
MaxListLen == 2     \* longest input list of the _to_list harness
MaxQueries == 2     \* queries made on one QueryClient
MaxItems == 2       \* items in a management listing
MaxMgmtOps == 3     \* operations invoked on one ManagementClient

---------------------------------------------------------------------------
(* Python strings and values *)

Chars == {"-", "g", "a", ":", "m", "c", "f"}

StringsUpTo(n) == UNION {[1..k -> Chars] : k \in 0..n}

Concat(a, b) == a \o b

\* str.startswith(prefix)
StartsWith(value, prefix) ==
    /\ Len(value) >= Len(prefix)
    /\ SubSeq(value, 1, Len(prefix)) = prefix

\* value[1:]
Slice1(value) == SubSeq(value, 2, Len(value))

GA == <<"g", "a", ":">>
MCF == <<"m", "c", "f", ":">>
Namespaces == {GA, MCF}
Dash == <<"-">>
Comma == <<",">>

PyNone == [t |-> "none", s |-> <<>>, l |-> <<>>, n |-> 0]
PyStr(x) == [t |-> "str", s |-> x, l |-> <<>>, n |-> 0]
PyList(xs) == [t |-> "list", s |-> <<>>, l |-> xs, n |-> 0]
PyInt(k) == [t |-> "int", s |-> <<>>, l |-> <<>>, n |-> k]

---------------------------------------------------------------------------
(* The parameter normaliser *)

\* A plausible slip: the bare-negation branch keeps the '-' inside the name.
_prefixer_keeps_dash(value, prefix) ==
    IF StartsWith(value, prefix) THEN value
    ELSE IF StartsWith(value, Concat(Dash, prefix)) THEN value
    ELSE IF StartsWith(value, Dash) THEN Concat(Dash, Concat(prefix, value))
    ELSE Concat(prefix, value)

\* A plausible slip: the '-' + prefix test is missing, so an already negated
\* and prefixed value is prefixed again.
_prefixer_no_negated_test(value, prefix) ==
    IF StartsWith(value, prefix) THEN value
    ELSE IF StartsWith(value, Dash) THEN Concat(Dash, Concat(prefix, Slice1(value)))
    ELSE Concat(prefix, value)

_prefixer(value, prefix) ==
    IF StartsWith(value, prefix) THEN value
    ELSE IF StartsWith(value, Concat(Dash, prefix)) THEN value
    ELSE IF StartsWith(value, Dash) THEN Concat(Dash, Concat(prefix, Slice1(value)))
    ELSE Concat(prefix, value)

_prefix_ga(value) == _prefixer(value, GA)

_prefix_mcf(value) == _prefixer(value, MCF)

\* A plausible slip: "if not value" for "if value is None", so that an empty
\* string or an empty list is taken for None.
_to_list_falsy(value) ==
    IF value.t = "none" \/ (value.t = "str" /\ value.s = <<>>) THEN <<>>
    ELSE IF value.t = "list" THEN value.l
    ELSE <<value.s>>

\* The result is the Python list, as the sequence of its (string) elements.
_to_list(value) ==
    IF value.t = "none" THEN <<>>
    ELSE IF value.t = "list" THEN value.l
    ELSE <<value.s>>

\* sep.join(strs)
RECURSIVE Join(_, _)
Join(strs, sep) ==
    IF Len(strs) = 0 THEN <<>>
    ELSE IF Len(strs) = 1 THEN strs[1]
    ELSE Concat(strs[1], Concat(sep, Join(Tail(strs), sep)))

_to_ga_param(values) == Join([i \in 1..Len(values) |-> _prefix_ga(values[i])], Comma)

_to_mcf_param(values) == Join([i \in 1..Len(values) |-> _prefix_mcf(values[i])], Comma)

---------------------------------------------------------------------------
(* The query sub-client *)

DigitChars == <<"0", "1", "2", "3", "4", "5", "6", "7", "8", "9">>

Digit(k) == DigitChars[k + 1]

\* %Y: four digits; %m and %d: two digits, zero-padded
Pad2(k) == <<Digit(k \div 10), Digit(k % 10)>>

Pad4(k) == <<Digit(k \div 1000), Digit((k \div 100) % 10), Digit((k \div 10) % 10), Digit(k % 10)>>

\* date.strftime("%Y-%m-%d")
strftime(date) == Pad4(date.y) \o Dash \o Pad2(date.m) \o Dash \o Pad2(date.d)

\* x or None, for a string x
OrNone(x) == IF x = <<>> THEN PyNone ELSE PyStr(x)

\* The prefixer handed to _get: self._to_ga_param (get_ga) or self._to_mcf_param (get_mcf)
CallPrefixer(prefixer, values) ==
    IF prefixer = "_to_mcf_param" THEN _to_mcf_param(values) ELSE _to_ga_param(values)

\* _get up to its call of _get_response: the positional metric and dimension
\* lists, the mcf flag and the keyword arguments.
_get(a, prefixer, mcf) ==
    LET ids == _to_list(a.ids)
        metrics == _to_list(a.metrics)
        dimensions == _to_list(a.dimensions)
        filters == _to_list(a.filters)
        sort == _to_list(a.sort)
    IN  [m |-> metrics, d |-> dimensions, mcf |-> mcf,
         kwargs |-> [k \in {"ids", "start_date", "end_date", "metrics", "dimensions",
                            "filters", "sort", "max_results", "segment"} |->
            CASE k = "ids" -> PyStr(_to_ga_param(ids))
              [] k = "start_date" -> PyStr(strftime(a.start_date))
              [] k = "end_date" -> PyStr(strftime(a.end_date))
              [] k = "metrics" -> PyStr(CallPrefixer(prefixer, metrics))
              [] k = "dimensions" -> OrNone(CallPrefixer(prefixer, dimensions))
              [] k = "filters" -> OrNone(CallPrefixer(prefixer, filters))
              [] k = "sort" -> OrNone(CallPrefixer(prefixer, sort))
              [] k = "max_results" -> a.max_results
              [] k = "segment" -> a.segment]]

\* del kwargs[key]
DelKey(kwargs, key) == [k \in DOMAIN kwargs \ {key} |-> kwargs[k]]

\* kwargs[key] = value
SetKey(kwargs, key, value) ==
    [k \in DOMAIN kwargs \cup {key} |-> IF k = key THEN value ELSE kwargs[k]]

_filter_empty(kwargs, key) ==
    IF key \in DOMAIN kwargs /\ kwargs[key].t = "none" THEN DelKey(kwargs, key) ELSE kwargs

\* "dimensions filters sort max_results segment".split()
FilteredArgs == <<"dimensions", "filters", "sort", "max_results", "segment">>

\* for arg in ...: kwargs = self._filter_empty(kwargs, arg)
RECURSIVE FilterAll(_, _)
FilterAll(kwargs, keys) ==
    IF keys = <<>> THEN kwargs
    ELSE FilterAll(_filter_empty(kwargs, Head(keys)), Tail(keys))

\* QueryClient.__init__: ga_hook or (lambda kwargs: None)
QueryClientHook(ga_hook) == IF ga_hook = "None" THEN "noop" ELSE ga_hook

\* The callables a caller may pass as ga_hook.  A hook is called with the very
\* dict get_raw_response goes on to use, so what it does to it stays done.
Hooks == {"None", "observe", "set_dimensions_empty", "set_ids", "add_null_key", "raise"}

\* self._ga_hook(kwargs): whether the hook raised, and the dict after the call
CallHook(hook, kwargs) ==
    [raised |-> hook = "raise",
     kwargs |->
        CASE hook = "set_dimensions_empty" -> SetKey(kwargs, "dimensions", PyStr(<<>>))
          [] hook = "set_ids" -> SetKey(kwargs, "ids", PyStr(<<"c">>))
          [] hook = "add_null_key" -> SetKey(kwargs, "extra", PyNone)
          [] OTHER -> kwargs]

NoKwargs == [k \in {} |-> PyNone]

\* A plausible slip: the hook is called after the request has been executed,
\* with the dict as stripped.
get_raw_response_hook_last(hook, mcf, kwargs) ==
    LET stripped == FilterAll(kwargs, FilteredArgs)
        h == CallHook(hook, stripped)
    IN  [events |-> <<"execute", "hook">>,
         hookArg |-> stripped,
         raised |-> h.raised,
         endpoint |-> IF mcf THEN "mcf" ELSE "ga",
         sent |-> stripped]

\* get_raw_response: the hook call and the execute call in the order made, the
\* dict the hook was called with, and the endpoint and keyword arguments of
\* get(**kwargs).execute() when it is reached.
get_raw_response(hook, mcf, kwargs) ==
    LET h == CallHook(hook, kwargs)
    IN  IF h.raised
        THEN [events |-> <<"hook">>,
              hookArg |-> kwargs,
              raised |-> TRUE,
              endpoint |-> "none",
              sent |-> NoKwargs]
        ELSE [events |-> <<"hook", "execute">>,
              hookArg |-> kwargs,
              raised |-> FALSE,
              endpoint |-> IF mcf THEN "mcf" ELSE "ga",
              sent |-> FilterAll(h.kwargs, FilteredArgs)]

\* The arguments of get_ga / get_mcf
QDates == {[y |-> 2013, m |-> 4, d |-> 1], [y |-> 2013, m |-> 12, d |-> 31]}
QIds == {PyStr(<<"a">>), PyList(<< <<"a">>, <<"c">> >>)}
QMetrics == {PyStr(<<"a">>), PyList(<< <<"g", "a", ":", "a">>, <<"c">> >>)}
QDimensions == {PyNone, PyList(<<>>), PyStr(<<>>), PyList(<< <<"a">>, <<"m", "c", "f", ":", "a">> >>)}
QFilters == {PyNone, PyStr(<<"a">>)}
QSort == {PyNone, PyStr(<<"-", "a">>), PyList(<< <<"-", "g", "a", ":", "a">>, <<"c">> >>)}
QMaxResults == {PyNone, PyInt(0), PyInt(10)}
QSegment == {PyNone, PyStr(<<>>), PyStr(<<"g">>)}

QArgs ==
    [ids : QIds, start_date : QDates, end_date : QDates, metrics : QMetrics,
     dimensions : QDimensions, filters : QFilters, sort : QSort,
     max_results : QMaxResults, segment : QSegment]

NoArgs ==
    [ids |-> PyNone, start_date |-> [y |-> 0, m |-> 0, d |-> 0],
     end_date |-> [y |-> 0, m |-> 0, d |-> 0], metrics |-> PyNone,
     dimensions |-> PyNone, filters |-> PyNone, sort |-> PyNone,
     max_results |-> PyNone, segment |-> PyNone]

\* Keyword arguments of a direct get_raw_response call: only the required
\* parameters, and all of them with some left None.
RawKwargs ==
    {[k \in {"ids", "start_date", "end_date", "metrics"} |-> PyStr(<<"g", "a", ":", "a">>)],
     [k \in {"ids", "start_date", "end_date", "metrics", "dimensions", "filters",
             "sort", "max_results", "segment"} |->
        IF k \in {"filters", "segment"} THEN PyNone
        ELSE IF k = "max_results" THEN PyInt(10)
        ELSE PyStr(<<"g", "a", ":", "a">>)]}

NoCall ==
    [entry |-> "none", a |-> NoArgs, mcf |-> FALSE, m |-> <<>>, d |-> <<>>,
     assembled |-> NoKwargs, hookArg |-> NoKwargs, raised |-> FALSE,
     endpoint |-> "none", sent |-> NoKwargs, response_max_results |-> PyNone]

---------------------------------------------------------------------------
(* The management sub-client *)

MgmtIds == {"1", "2"}
MgmtNames == {"x", "y"}
LookupIds == MgmtIds \cup {"9"}
AccountArgs == {"1"}
WebPropertyArgs == {"UA-1"}

\* A management resource: a mapping with an id field
Resources == [id : MgmtIds, name : MgmtNames]

NoResource == [id |-> "", name |-> ""]

\* The JSON documents list(...).execute() may return
ListingDocs == {[items |-> xs] : xs \in UNION {[1..k -> Resources] : k \in 0..MaxItems}}

\* Iterating a ManagementResponse yields the items of its document.
ManagementResponse(doc) == doc.items

\* A plausible slip: a listing already fetched with the same arguments is
\* reused instead of being fetched again.
_list_memoised(name, kwargs, doc) ==
    LET call == [name |-> name, kwargs |-> kwargs]
        earlier == {i \in 1..Len(mc.calls) : mc.calls[i] = call}
    IN  IF earlier # {}
        THEN [calls |-> mc.calls,
              fetch |-> CHOOSE i \in earlier : TRUE,
              response |-> ManagementResponse(doc)]
        ELSE [calls |-> Append(mc.calls, call),
              fetch |-> Len(mc.calls) + 1,
              response |-> ManagementResponse(doc)]

\* _list: one list(**kwargs).execute() call on the named collection, which
\* answers doc; the execute calls made so far, the index of this one among
\* them, and the response built from its answer.
_list(name, kwargs, doc) ==
    [calls |-> Append(mc.calls, [name |-> name, kwargs |-> kwargs]),
     fetch |-> Len(mc.calls) + 1,
     response |-> ManagementResponse(doc)]

\* A plausible slip: the raise after the loop is missing, so that a lookup
\* that finds nothing returns None.
_item_no_raise(response, id) ==
    LET hits == {i \in 1..Len(response) : response[i].id = id}
    IN  IF hits = {}
        THEN [raised |-> "", item |-> NoResource]
        ELSE [raised |-> "",
              item |-> response[CHOOSE i \in hits : \A j \in hits : i <= j]]

\* _item: the first item of the response with the id, or GapyError
_item(response, id) ==
    LET hits == {i \in 1..Len(response) : response[i].id = id}
    IN  IF hits = {}
        THEN [raised |-> "GapyError: Id not found", item |-> NoResource]
        ELSE [raised |-> "",
              item |-> response[CHOOSE i \in hits : \A j \in hits : i <= j]]

NoMgmtKwargs == [k \in {} |-> ""]

NoOp ==
    [op |-> "none", kind |-> "none", id |-> "", fetch |-> 0, listing |-> <<>>,
     searched |-> FALSE, raised |-> "", item |-> NoResource]

---------------------------------------------------------------------------
(* Construction.  An argument is "None", a string, or the name of an object. *)

GOOGLE_API_SCOPE == "https://www.googleapis.com/auth/analytics"
GOOGLE_API_SCOPE_READONLY == "https://www.googleapis.com/auth/analytics.readonly"

\* not x, for None and the empty string
Falsy(x) == x \in {"None", ""}

NoClient == [service |-> "none", scope |-> "", http |-> "", ga_hook |-> ""]

\* The errors construction raises
MsgNoKey == "GapyError: Must provide either a private_key or a private_key_file"
MsgNoStorage == "GapyError: Must provide either a storage object or a storage_path"

\* A plausible slip: the check of storage_path is missing, so that a Storage is
\* built on no file name.
_get_storage_unchecked(storage, storage_path) ==
    IF Falsy(storage)
    THEN [raised |-> "", calls |-> <<"Storage">>, storage |-> "Storage(file)"]
    ELSE [raised |-> "", calls |-> <<>>, storage |-> storage]

_get_storage(storage, storage_path) ==
    IF Falsy(storage)
    THEN IF Falsy(storage_path)
         THEN [raised |-> MsgNoStorage, calls |-> <<>>, storage |-> "None"]
         ELSE [raised |-> "", calls |-> <<"Storage">>, storage |-> "Storage(file)"]
    ELSE [raised |-> "", calls |-> <<>>, storage |-> storage]

\* _build: the external calls it makes, and the http client it has authorised
_build(http_client) ==
    IF Falsy(http_client)
    THEN [calls |-> <<"httplib2.Http", "credentials.authorize", "build">>,
          http |-> "httplib2.Http()"]
    ELSE [calls |-> <<"credentials.authorize", "build">>, http |-> http_client]

\* Client.__init__ on the service _build returns
Client(scope, http, ga_hook) ==
    [service |-> "analytics", scope |-> scope, http |-> http, ga_hook |-> ga_hook]

from_private_key_result(a) ==
    LET noKey == Falsy(a.private_key)
        key == IF ~noKey THEN <<>>
               ELSE IF a.private_key_path = "key.pem" THEN <<"open", "read">>
               ELSE <<"read">>
        st == _get_storage(a.storage, a.storage_path)
        scope == IF a.readonly THEN GOOGLE_API_SCOPE_READONLY ELSE GOOGLE_API_SCOPE
        b == _build(a.http_client)
    IN  IF noKey /\ Falsy(a.private_key_path)
        THEN [raised |-> MsgNoKey, calls |-> <<>>, client |-> NoClient]
        ELSE IF st.raised # ""
        THEN [raised |-> st.raised, calls |-> key \o st.calls, client |-> NoClient]
        ELSE [raised |-> "",
              calls |-> key \o st.calls
                        \o <<"SignedJwtAssertionCredentials", "credentials.set_store">>
                        \o b.calls,
              client |-> Client(scope, b.http, a.ga_hook)]

\* stored: what storage.get() returns, "None", "invalid" or "valid"
from_secrets_file_result(a, stored) ==
    LET scope == IF a.readonly THEN GOOGLE_API_SCOPE_READONLY ELSE GOOGLE_API_SCOPE
        st == _get_storage(a.storage, a.storage_path)
        b == _build(a.http_client)
    IN  IF st.raised # ""
        THEN [raised |-> st.raised,
              calls |-> <<"flow_from_clientsecrets">> \o st.calls,
              client |-> NoClient]
        ELSE [raised |-> "",
              calls |-> <<"flow_from_clientsecrets">> \o st.calls \o <<"storage.get">>
                        \o (IF stored \in {"None", "invalid"} THEN <<"run">> ELSE <<>>)
                        \o b.calls,
              client |-> Client(scope, b.http, a.ga_hook)]

PrivateKeyArgs ==
    [private_key : {"None", "", "KEY"},
     private_key_path : {"None", "", "key.pem", "file object"},
     storage : {"None", "storage object"},
     storage_path : {"None", "", "store.dat"},
     readonly : BOOLEAN,
     http_client : {"None", "http object"},
     ga_hook : {"None", "hook"}]

SecretsFileArgs ==
    [private_key : {"None"},
     private_key_path : {"None"},
     storage : {"None", "storage object"},
     storage_path : {"None", "", "store.dat"},
     readonly : BOOLEAN,
     http_client : {"None", "http object"},
     ga_hook : {"None", "hook"}]

NoCtorArgs ==
    [private_key |-> "None", private_key_path |-> "None", storage |-> "None",
     storage_path |-> "None", readonly |-> FALSE, http_client |-> "None",
     ga_hook |-> "None"]

---------------------------------------------------------------------------
(* Idle values of the parts a specification does not exercise *)

PfIdle == [value |-> <<>>, ns |-> GA, applied |-> 0, once |-> <<>>, twice |-> <<>>]
TlIdle == [value |-> PyNone, stage |-> 0, out |-> <<>>, param |-> <<>>]
QcIdle == [hook |-> "noop", queries |-> 0, pc |-> "idle", last |-> NoCall]
QlogIdle == <<>>
McIdle == [pc |-> "idle", ops |-> 0, calls |-> <<>>, last |-> NoOp]
CtorIdle ==
    [fn |-> "none", a |-> NoCtorArgs, raised |-> "", calls |-> <<>>, client |-> NoClient]

---------------------------------------------------------------------------
(* The _prefixer harness: any string and namespace, applied once and twice *)

PrefixInputs == StringsUpTo(MaxStrLen)

InitPrefix ==
    /\ \E v \in PrefixInputs, ns \in Namespaces :
          pf = [value |-> v, ns |-> ns, applied |-> 0, once |-> <<>>, twice |-> <<>>]
    /\ tl = TlIdle /\ qc = QcIdle /\ qlog = QlogIdle /\ mc = McIdle /\ ctor = CtorIdle

ApplyPrefixer ==
    /\ pf.applied = 0
    /\ pf' = [pf EXCEPT !.applied = 1, !.once = _prefixer(pf.value, pf.ns)]
    /\ UNCHANGED <<tl, qc, qlog, mc, ctor>>

ApplyPrefixerAgain ==
    /\ pf.applied = 1
    /\ pf' = [pf EXCEPT !.applied = 2, !.twice = _prefixer(pf.once, pf.ns)]
    /\ UNCHANGED <<tl, qc, qlog, mc, ctor>>

NextPrefix == ApplyPrefixer \/ ApplyPrefixerAgain

SpecPrefix == InitPrefix /\ [][NextPrefix]_vars

\* C1: _prefixer(value, ns) is value when value starts with ns or with '-' + ns,
\* '-' + ns + value[1:] when value starts with a bare '-', and ns + value
\* otherwise; '-a' under 'ga:' gives '-ga:a'.
C1_PrefixerCases ==
    pf.applied >= 1 =>
        LET v == pf.value
            ns == pf.ns
            negated == Len(v) >= 1 /\ v[1] = "-"
            hasNs == Len(v) >= Len(ns) /\ \A i \in 1..Len(ns) : v[i] = ns[i]
            hasNegNs == /\ negated
                        /\ Len(v) >= Len(ns) + 1
                        /\ \A i \in 1..Len(ns) : v[i + 1] = ns[i]
        IN  /\ hasNs => pf.once = v
            /\ hasNegNs => pf.once = v
            /\ (negated /\ ~hasNegNs) => pf.once = <<"-">> \o ns \o Tail(v)
            /\ (~negated /\ ~hasNs) => pf.once = ns \o v
            /\ (v = <<"-", "a">> /\ ns = GA) => pf.once = <<"-", "g", "a", ":", "a">>

\* A bare negation has been prefixed: '-a' became '-ga:a'.
C1_Witness ==
    /\ pf.applied >= 1
    /\ pf.value = <<"-", "a">>
    /\ pf.ns = GA
    /\ pf.once = <<"-", "g", "a", ":", "a">>

\* C2: prefixing is idempotent: a second application of _prefixer with the same
\* namespace returns what the first returned, for every input string.
C2_PrefixerIdempotent ==
    pf.applied = 2 => pf.twice = pf.once

\* The bare '-' has been prefixed twice under 'mcf:'.
C2_Witness ==
    /\ pf.applied = 2
    /\ pf.value = <<"-">>
    /\ pf.ns = MCF
    /\ pf.twice = <<"-", "m", "c", "f", ":">>

---------------------------------------------------------------------------
(* The _to_list harness: None, a string or a list, normalised and then joined *)

ListElements == StringsUpTo(1)

ListsUpTo(n) == UNION {[1..k -> ListElements] : k \in 0..n}

ToListInputs ==
    {PyNone} \cup {PyStr(x) : x \in ListElements}
             \cup {PyList(xs) : xs \in ListsUpTo(MaxListLen)}

InitToList ==
    /\ \E v \in ToListInputs : tl = [value |-> v, stage |-> 0, out |-> <<>>, param |-> <<>>]
    /\ pf = PfIdle /\ qc = QcIdle /\ qlog = QlogIdle /\ mc = McIdle /\ ctor = CtorIdle

ToList ==
    /\ tl.stage = 0
    /\ tl' = [tl EXCEPT !.stage = 1, !.out = _to_list(tl.value)]
    /\ UNCHANGED <<pf, qc, qlog, mc, ctor>>

ToGaParam ==
    /\ tl.stage = 1
    /\ tl' = [tl EXCEPT !.stage = 2, !.param = _to_ga_param(tl.out)]
    /\ UNCHANGED <<pf, qc, qlog, mc, ctor>>

ToMcfParam ==
    /\ tl.stage = 1
    /\ tl' = [tl EXCEPT !.stage = 3, !.param = _to_mcf_param(tl.out)]
    /\ UNCHANGED <<pf, qc, qlog, mc, ctor>>

NextToList == ToList \/ ToGaParam \/ ToMcfParam

SpecToList == InitToList /\ [][NextToList]_vars

---------------------------------------------------------------------------
(* The query sub-client: a QueryClient built with any hook, then queries *)

InitQuery ==
    /\ \E ga_hook \in Hooks :
          qc = [hook |-> QueryClientHook(ga_hook), queries |-> 0, pc |-> "idle",
                last |-> NoCall]
    /\ qlog = <<>>
    /\ pf = PfIdle /\ tl = TlIdle /\ mc = McIdle /\ ctor = CtorIdle

\* kwargs.get("max_results", None)
KwargsGet(kwargs, key) == IF key \in DOMAIN kwargs THEN kwargs[key] ELSE PyNone

\* _get_response: get_raw_response(mcf, **kwargs), then the QueryResponse built
\* from its result, m, d and kwargs.get("max_results") unless the call raised.
_get_response(entry, a, m, d, mcf, kwargs) ==
    LET r == get_raw_response(qc.hook, mcf, kwargs)
        q == qc.queries + 1
    IN  /\ qc' = [qc EXCEPT
                    !.queries = q,
                    !.pc = "done",
                    !.last = [entry |-> entry, a |-> a, mcf |-> mcf, m |-> m, d |-> d,
                              assembled |-> kwargs, hookArg |-> r.hookArg,
                              raised |-> r.raised, endpoint |-> r.endpoint,
                              sent |-> r.sent,
                              response_max_results |->
                                  IF r.raised THEN PyNone
                                  ELSE KwargsGet(kwargs, "max_results")]]
        /\ qlog' = qlog \o [i \in 1..Len(r.events) |-> [ev |-> r.events[i], q |-> q]]
        /\ UNCHANGED <<pf, tl, mc, ctor>>

get_ga ==
    /\ qc.pc = "idle"
    /\ qc.queries < MaxQueries
    /\ \E a \in QArgs :
          LET g == _get(a, "_to_ga_param", FALSE)
          IN  _get_response("get_ga", a, g.m, g.d, g.mcf, g.kwargs)

get_mcf ==
    /\ qc.pc = "idle"
    /\ qc.queries < MaxQueries
    /\ \E a \in QArgs :
          LET g == _get(a, "_to_mcf_param", TRUE)
          IN  _get_response("get_mcf", a, g.m, g.d, g.mcf, g.kwargs)

\* get_raw_response called by the client's user
GetRawResponse ==
    /\ qc.pc = "idle"
    /\ qc.queries < MaxQueries
    /\ \E mcf \in BOOLEAN, kwargs \in RawKwargs :
          LET r == get_raw_response(qc.hook, mcf, kwargs)
              q == qc.queries + 1
          IN  /\ qc' = [qc EXCEPT
                          !.queries = q,
                          !.pc = "done",
                          !.last = [entry |-> "get_raw_response", a |-> NoArgs,
                                    mcf |-> mcf, m |-> <<>>, d |-> <<>>,
                                    assembled |-> kwargs, hookArg |-> r.hookArg,
                                    raised |-> r.raised, endpoint |-> r.endpoint,
                                    sent |-> r.sent, response_max_results |-> PyNone]]
              /\ qlog' = qlog \o [i \in 1..Len(r.events) |-> [ev |-> r.events[i], q |-> q]]
              /\ UNCHANGED <<pf, tl, mc, ctor>>

\* The query has returned to (or raised into) its caller.
QueryReturn ==
    /\ qc.pc = "done"
    /\ qc' = [qc EXCEPT !.pc = "idle", !.last = NoCall]
    /\ UNCHANGED <<qlog, pf, tl, mc, ctor>>

NextQuery == get_ga \/ get_mcf \/ GetRawResponse \/ QueryReturn

SpecQuery == InitQuery /\ [][NextQuery]_vars

(* What the claims about a query speak of *)

OptionalArgs == {"dimensions", "filters", "sort", "max_results", "segment"}

\* A mapping without its None-valued optional entries
StripNulls(kwargs) ==
    [k \in {x \in DOMAIN kwargs : ~(x \in OptionalArgs /\ kwargs[x].t = "none")} |-> kwargs[k]]

\* The comma-joined, namespaced string of a caller's value
Joined(value, ns) ==
    LET xs == _to_list(value)
    IN  Join([i \in 1..Len(xs) |-> _prefixer(xs[i], ns)], Comma)

Executed == qc.pc = "done" /\ ~qc.last.raised

ExecutedEntry == Executed /\ qc.last.entry \in {"get_ga", "get_mcf"}

\* The hook left the dict it was given as it was.
HookKeepsKwargs == qc.hook \in {"noop", "observe"}

HookEvents(q) == {i \in 1..Len(qlog) : qlog[i].q = q /\ qlog[i].ev = "hook"}

ExecuteEvents(q) == {i \in 1..Len(qlog) : qlog[i].q = q /\ qlog[i].ev = "execute"}

ParamsOmitNullsAndEmpties ==
    LET sent == qc.last.sent
        a == qc.last.a
        ns == IF qc.last.entry = "get_mcf" THEN MCF ELSE GA
    IN  /\ \A k \in DOMAIN sent : sent[k].t # "none"
        /\ \A k \in {"dimensions", "filters", "sort"} :
              /\ k \in DOMAIN sent <=> Joined(a[k], ns) # <<>>
              /\ k \in DOMAIN sent => sent[k] = PyStr(Joined(a[k], ns))
        /\ \A k \in {"max_results", "segment"} :
              /\ k \in DOMAIN sent <=> a[k].t # "none"
              /\ k \in DOMAIN sent => sent[k] = a[k]

\* C4: what get_ga / get_mcf hand to execute holds no None value; dimensions,
\* filters and sort are there exactly when the caller's value joins to a
\* non-empty string (never as an empty string), max_results and segment exactly
\* when the caller gave a value that is not None.
C4_NoNullNoEmptySent ==
    ExecutedEntry => ParamsOmitNullsAndEmpties

\* The same, for the hooks that leave the dict alone (holds).
C4_WhenHookKeepsKwargs ==
    (ExecutedEntry /\ HookKeepsKwargs) => ParamsOmitNullsAndEmpties

\* C5: whatever the hook does with the mapping it is given, execute receives
\* the assembled parameters without their None-valued optional entries.
C5_HookCannotAlterSent ==
    Executed => qc.last.sent = StripNulls(qc.last.assembled)

\* What execute does receive: the dict as the hook left it, stripped (holds).
C5_SentIsStrippedAfterHook ==
    Executed => qc.last.sent = StripNulls(CallHook(qc.hook, qc.last.assembled).kwargs)

\* C6: every query calls the hook exactly once, before its execute call, with
\* the assembled mapping as it is before the None entries are removed; there is
\* no execute call without its hook call before it, and none at all when the
\* hook raised.
C6_HookOnceBeforeExecute ==
    /\ \A i \in 1..Len(qlog) : qlog[i].q \in 1..qc.queries
    /\ \A q \in 1..qc.queries :
          /\ Cardinality(HookEvents(q)) = 1
          /\ Cardinality(ExecuteEvents(q)) <= 1
          /\ \A j \in ExecuteEvents(q) : \E i \in HookEvents(q) : i < j
    /\ qc.pc = "done" =>
          /\ qc.last.hookArg = qc.last.assembled
          /\ qc.last.raised => ExecuteEvents(qc.queries) = {}
          /\ ~qc.last.raised => Cardinality(ExecuteEvents(qc.queries)) = 1

\* A second query has run hook then execute after the first; its hook was given
\* a None-valued dimensions entry that execute did not receive.
C6_Witness ==
    /\ qc.pc = "done"
    /\ qc.queries = 2
    /\ Len(qlog) = 4
    /\ qlog[3] = [ev |-> "hook", q |-> 2]
    /\ qlog[4] = [ev |-> "execute", q |-> 2]
    /\ "dimensions" \in DOMAIN qc.last.hookArg
    /\ qc.last.hookArg["dimensions"].t = "none"
    /\ "dimensions" \notin DOMAIN qc.last.sent

\* The hook raised: the query made no execute call.
C6_WitnessHookRaised ==
    /\ qc.pc = "done"
    /\ qc.last.raised
    /\ qlog[Len(qlog)] = [ev |-> "hook", q |-> qc.queries]

EntryParams ==
    LET sent == qc.last.sent
        a == qc.last.a
        isMcf == qc.last.entry = "get_mcf"
        ns == IF isMcf THEN MCF ELSE GA
    IN  /\ qc.last.endpoint = (IF isMcf THEN "mcf" ELSE "ga")
        /\ DOMAIN sent \subseteq {"ids", "start_date", "end_date", "metrics"} \cup OptionalArgs
        /\ {"ids", "start_date", "end_date", "metrics"} \subseteq DOMAIN sent
        /\ sent["ids"] = PyStr(Joined(a.ids, GA))
        /\ sent["start_date"] = PyStr(strftime(a.start_date))
        /\ sent["end_date"] = PyStr(strftime(a.end_date))
        /\ sent["metrics"] = PyStr(Joined(a.metrics, ns))
        /\ \A k \in {"dimensions", "filters", "sort"} :
              k \in DOMAIN sent => sent[k] = PyStr(Joined(a[k], ns))
        /\ \A k \in {"max_results", "segment"} :
              k \in DOMAIN sent => sent[k] = a[k]

\* C10: get_ga calls the ga endpoint with metrics, dimensions, filters and sort
\* prefixed 'ga:', get_mcf the mcf endpoint with them prefixed 'mcf:'; all else
\* is a function of the arguments alone: the identifiers joined with 'ga:' in
\* both, the dates, max_results and segment as given, and no mcf entry.
C10_EntriesDifferInEndpointAndPrefix ==
    ExecutedEntry => EntryParams

\* The same, for the hooks that leave the dict alone (holds).
C10_WhenHookKeepsKwargs ==
    (ExecutedEntry /\ HookKeepsKwargs) => EntryParams

---------------------------------------------------------------------------
(* The management sub-client: operations on one ManagementClient *)

InitMgmt ==
    /\ mc = [pc |-> "idle", ops |-> 0, calls |-> <<>>, last |-> NoOp]
    /\ pf = PfIdle /\ tl = TlIdle /\ qc = QcIdle /\ qlog = QlogIdle /\ ctor = CtorIdle

MgmtReady == mc.pc = "idle" /\ mc.ops < MaxMgmtOps

\* A plural operation, return self._list(name, **kwargs): the client after it
Plural(op, name, kwargs, doc) ==
    LET r == _list(name, kwargs, doc)
    IN  [pc |-> "done", ops |-> mc.ops + 1, calls |-> r.calls,
         last |-> [op |-> op, kind |-> name, id |-> "", fetch |-> r.fetch,
                   listing |-> r.response, searched |-> FALSE,
                   raised |-> "", item |-> NoResource]]

\* A singular operation, return self._item(self.<plural>(...), id): the client
\* after it
Singular(op, name, kwargs, id, doc) ==
    LET r == _list(name, kwargs, doc)
        found == _item(r.response, id)
    IN  [pc |-> "done", ops |-> mc.ops + 1, calls |-> r.calls,
         last |-> [op |-> op, kind |-> name, id |-> id, fetch |-> r.fetch,
                   listing |-> r.response, searched |-> TRUE,
                   raised |-> found.raised, item |-> found.item]]

AccountKwargs(acct) == [k \in {"accountId"} |-> acct]

ProfileKwargs(acct, wp) ==
    [k \in {"accountId", "webPropertyId"} |-> IF k = "accountId" THEN acct ELSE wp]

accounts ==
    /\ MgmtReady
    /\ \E doc \in ListingDocs : mc' = Plural("accounts", "accounts", NoMgmtKwargs, doc)
    /\ UNCHANGED <<pf, tl, qc, qlog, ctor>>

account ==
    /\ MgmtReady
    /\ \E id \in LookupIds, doc \in ListingDocs :
          mc' = Singular("account", "accounts", NoMgmtKwargs, id, doc)
    /\ UNCHANGED <<pf, tl, qc, qlog, ctor>>

webproperties ==
    /\ MgmtReady
    /\ \E acct \in AccountArgs, doc \in ListingDocs :
          mc' = Plural("webproperties", "webproperties", AccountKwargs(acct), doc)
    /\ UNCHANGED <<pf, tl, qc, qlog, ctor>>

webproperty ==
    /\ MgmtReady
    /\ \E acct \in AccountArgs, id \in LookupIds, doc \in ListingDocs :
          mc' = Singular("webproperty", "webproperties", AccountKwargs(acct), id, doc)
    /\ UNCHANGED <<pf, tl, qc, qlog, ctor>>

profiles ==
    /\ MgmtReady
    /\ \E acct \in AccountArgs, wp \in WebPropertyArgs, doc \in ListingDocs :
          mc' = Plural("profiles", "profiles", ProfileKwargs(acct, wp), doc)
    /\ UNCHANGED <<pf, tl, qc, qlog, ctor>>

profile ==
    /\ MgmtReady
    /\ \E acct \in AccountArgs, wp \in WebPropertyArgs, id \in LookupIds, doc \in ListingDocs :
          mc' = Singular("profile", "profiles", ProfileKwargs(acct, wp), id, doc)
    /\ UNCHANGED <<pf, tl, qc, qlog, ctor>>

segments ==
    /\ MgmtReady
    /\ \E doc \in ListingDocs : mc' = Plural("segments", "segments", NoMgmtKwargs, doc)
    /\ UNCHANGED <<pf, tl, qc, qlog, ctor>>

\* The operation has returned to (or raised into) its caller.
MgmtReturn ==
    /\ mc.pc = "done"
    /\ mc' = [mc EXCEPT !.pc = "idle", !.last = NoOp]
    /\ UNCHANGED <<pf, tl, qc, qlog, ctor>>

NextMgmt ==
    \/ accounts \/ account \/ webproperties \/ webproperty
    \/ profiles \/ profile \/ segments \/ MgmtReturn

SpecMgmt == InitMgmt /\ [][NextMgmt]_vars

\* The listing kind of each operation
KindOf(op) ==
    CASE op \in {"accounts", "account"} -> "accounts"
      [] op \in {"webproperties", "webproperty"} -> "webproperties"
      [] op \in {"profiles", "profile"} -> "profiles"
      [] op = "segments" -> "segments"

\* C7: a lookup by id returns the one item of the listing whose id field is the
\* id when there is one, and raises GapyError('Id not found') when the listing
\* (empty or not) has no item with the id.
C7_ItemLookup ==
    (mc.pc = "done" /\ mc.last.searched) =>
        LET listing == mc.last.listing
            hits == {i \in 1..Len(listing) : listing[i].id = mc.last.id}
        IN  /\ mc.last.op \in {"account", "webproperty", "profile"}
            /\ hits = {} =>
                  mc.last.raised = "GapyError: Id not found" /\ mc.last.item = NoResource
            /\ Cardinality(hits) = 1 =>
                  /\ mc.last.raised = ""
                  /\ \A i \in hits : mc.last.item = listing[i]

\* A listing of two items, the second of which has the id: it was returned.
C7_WitnessFound ==
    /\ mc.pc = "done"
    /\ mc.last.op = "webproperty"
    /\ mc.last.id = "2"
    /\ mc.last.listing = <<[id |-> "1", name |-> "x"], [id |-> "2", name |-> "y"]>>
    /\ mc.last.item = [id |-> "2", name |-> "y"]

\* An id that is in no listing, looked up in a non-empty one: GapyError.
C7_WitnessNotFound ==
    /\ mc.pc = "done"
    /\ mc.last.op = "profile"
    /\ mc.last.id = "9"
    /\ Len(mc.last.listing) > 0
    /\ mc.last.raised = "GapyError: Id not found"

\* C9: no caching: after n invocations exactly n listing calls have been made,
\* the i-th of them by the i-th invocation and on the collection of its kind;
\* a lookup searches the listing fetched by the call of its own invocation.
C9_NoCaching ==
    /\ Len(mc.calls) = mc.ops
    /\ mc.pc = "done" =>
          /\ mc.last.fetch = mc.ops
          /\ mc.calls[mc.ops].name = KindOf(mc.last.op)
          /\ mc.last.kind = KindOf(mc.last.op)

\* The same lookup twice in a row: two listing calls, the second one searched.
C9_Witness ==
    /\ mc.pc = "done"
    /\ mc.ops = 2
    /\ mc.last.op = "account"
    /\ mc.last.searched
    /\ Len(mc.calls) = 2
    /\ mc.calls[1] = mc.calls[2]
    /\ mc.last.fetch = 2

---------------------------------------------------------------------------
(* Construction: the two ways to make a Client.  A construction shares no    *)
(* state with another, so a behaviour makes one.                             *)

InitConstruct ==
    /\ ctor = CtorIdle
    /\ pf = PfIdle /\ tl = TlIdle /\ qc = QcIdle /\ qlog = QlogIdle /\ mc = McIdle

from_private_key ==
    /\ ctor.fn = "none"
    /\ \E a \in PrivateKeyArgs :
          LET r == from_private_key_result(a)
          IN  ctor' = [fn |-> "from_private_key", a |-> a, raised |-> r.raised,
                       calls |-> r.calls, client |-> r.client]
    /\ UNCHANGED <<pf, tl, qc, qlog, mc>>

from_secrets_file ==
    /\ ctor.fn = "none"
    /\ \E a \in SecretsFileArgs, stored \in {"None", "invalid", "valid"} :
          LET r == from_secrets_file_result(a, stored)
          IN  ctor' = [fn |-> "from_secrets_file", a |-> a, raised |-> r.raised,
                       calls |-> r.calls, client |-> r.client]
    /\ UNCHANGED <<pf, tl, qc, qlog, mc>>

NextConstruct == from_private_key \/ from_secrets_file

SpecConstruct == InitConstruct /\ [][NextConstruct]_vars

\* The calls that build or authorise credentials or reach the network
CredentialOrNetworkCalls ==
    {"SignedJwtAssertionCredentials", "credentials.set_store", "storage.get", "run",
     "httplib2.Http", "credentials.authorize", "build"}

KeyWithheld ==
    /\ ctor.fn = "from_private_key"
    /\ ctor.a.private_key \in {"None", ""}
    /\ ctor.a.private_key_path \in {"None", ""}

StorageWithheld ==
    /\ ctor.fn \in {"from_private_key", "from_secrets_file"}
    /\ ctor.a.storage = "None"
    /\ ctor.a.storage_path \in {"None", ""}

C8_WitnessKeyButNoStorage ==
    /\ ctor.fn = "from_private_key"
    /\ ctor.a.private_key = "KEY"
    /\ ctor.a.storage = "None"
    /\ ctor.a.storage_path = "None"
    /\ ctor.raised = MsgNoStorage
    /\ ctor.calls = <<>>

====
